---- MODULE Spec2Model ----
(***************************************************************************)
(* Model of the Blackjack rules engine Game21 (game_logic.py).             *)
(*                                                                         *)
(* A card is the text token the code builds with f"{rank}{suit}", modelled *)
(* as the sequence of its characters: "10" + spade is <<"1","0","S">>.     *)
(* The four suit glyphs of the source are written S, H, D, C.              *)
(* random.shuffle is modelled as the Fisher-Yates pass it performs, driven *)
(* by a small pseudo-random stream selected by a seed.                     *)
(***************************************************************************)
EXTENDS Integers, Sequences, FiniteSets, TLC

VARIABLES
    deck,                     \* self.deck
    deck_position,            \* self.deck_position
    player_hand,              \* self.player_hand
    dealer_hand,              \* self.dealer_hand
    dealer_hidden_revealed,   \* self.dealer_hidden_revealed
    pc,                       \* "idle", or "dealer_loop" inside play_dealer_turn's while
    op,                       \* the method called last
    card,                     \* the card returned by the last draw_card / player_hit
    drawn_cards,              \* play_dealer_turn's local list, its return value
    result,                   \* the string returned by the last decide_winner
    raised,                   \* the exception raised by the last call, or "none"
    entry_hand,               \* dealer_hand at the moment play_dealer_turn was called
    entry_position,           \* deck_position at the moment play_dealer_turn was called
    dealt_log,                \* cards returned by draw_card since the shoe was last built
    rebuilt,                  \* whether the last call ran draw_card's exhaustion branch
    direct_run,               \* direct draw_card calls made since the last draw into a held hand
    hand,                     \* the argument of a direct hand_total(hand) call
    total,                    \* the value returned by that call, -1 before the call
    hitButton,                \* MainWindow.hitButton is enabled
    standButton,              \* MainWindow.standButton is enabled
    feedbackLabel,            \* the text of MainWindow.feedbackLabel
    stats,                    \* MainWindow.stats
    round_hits,               \* Hit clicks handled since the last new_round_setup
    round_decisions,          \* decide_winner calls made since the last new_round_setup
    decisions,                \* decide_winner calls made by the window so far
    rounds                    \* new_round_setup calls made by the window so far

engine == <<deck, deck_position, player_hand, dealer_hand, dealer_hidden_revealed>>
vars == <<deck, deck_position, player_hand, dealer_hand, dealer_hidden_revealed,
          pc, op, card, drawn_cards, result, raised, entry_hand, entry_position,
          dealt_log, rebuilt, direct_run, hand, total,
          hitButton, standButton, feedbackLabel, stats, round_hits, round_decisions,
          decisions, rounds>>
gui == <<hitButton, standButton, feedbackLabel, stats, round_hits, round_decisions, decisions,
         rounds>>

----------------------------------------------------------------------------
(* Bounds of the exploration *)

NumSeeds == 1           \* random streams explored for random.shuffle
MaxPlayerHand == 3      \* player_hit is explored while the player holds fewer cards
MaxDirectRun == 0       \* direct draw_card calls explored between two draws into a held hand
MaxHandLen == 4         \* longest argument of a direct hand_total call
MaxDeckHandLen == 5     \* longest hand of different cards of one deck given to hand_total
MaxRankLen == 2         \* longest rank text of a card given to card_value from outside the deck
NumWindowSeeds == 3     \* random streams explored for the shuffles of a window session
MaxRounds == 3          \* rounds explored in a window session

Seeds == 1..NumSeeds

----------------------------------------------------------------------------
(* Text conversions used by create_deck and card_value *)

DigitChars == <<"0", "1", "2", "3", "4", "5", "6", "7", "8", "9">>

RECURSIVE str(_)
str(n) ==
    IF n < 10 THEN <<DigitChars[n + 1]>>
    ELSE str(n \div 10) \o <<DigitChars[(n % 10) + 1]>>

DigitValue(ch) == (CHOOSE i \in 1..10 : DigitChars[i] = ch) - 1

RECURSIVE int(_)
int(text) ==
    IF Len(text) = 1 THEN DigitValue(text[1])
    ELSE 10 * int(SubSeq(text, 1, Len(text) - 1)) + DigitValue(text[Len(text)])

\* int(text) raises ValueError on the empty text and on a text with a character
\* that is no decimal digit
int_raises(text) ==
    \/ text = <<>>
    \/ \E i \in 1..Len(text) : \A d \in 1..Len(DigitChars) : DigitChars[d] # text[i]

----------------------------------------------------------------------------
(* create_deck *)

\* mutant: range(2, 10) leaves out the tens
ranks_without_ten == <<<<"A">>>> \o [i \in 1..8 |-> str(i + 1)] \o <<<<"J">>, <<"Q">>, <<"K">>>>

ranks == <<<<"A">>>> \o [i \in 1..9 |-> str(i + 1)] \o <<<<"J">>, <<"Q">>, <<"K">>>>
suits == <<"S", "H", "D", "C">>

\* mutant: the fourth suit is never used, the first is used twice
create_deck_repeated_suit ==
    [i \in 1..(Len(ranks) * Len(suits)) |->
        ranks[((i - 1) \div Len(suits)) + 1] \o <<suits[((i - 1) % (Len(suits) - 1)) + 1]>>]

create_deck ==
    [i \in 1..(Len(ranks) * Len(suits)) |->
        ranks[((i - 1) \div Len(suits)) + 1] \o <<suits[((i - 1) % Len(suits)) + 1]>>]

----------------------------------------------------------------------------
(* random.shuffle: for i in reversed(range(1, len(x))): j = randbelow(i + 1); swap x[i], x[j] *)

next_random(x) == (x * 75 + 74) % 65537

swap(x, i, j) == [x EXCEPT ![i] = x[j], ![j] = x[i]]

RECURSIVE shuffle_from(_, _, _)
shuffle_from(x, i, rnd) ==
    IF i < 1 THEN x
    ELSE shuffle_from(swap(x, i + 1, (rnd % (i + 1)) + 1), i - 1, next_random(rnd))

shuffle(x, seed) == shuffle_from(x, Len(x) - 1, next_random(seed))

\* the outcome of random.shuffle that hands the player the lowest cards: the first
\* two Aces, the last two cards of the unshuffled deck for the dealer, then the rest
LowCardsToPlayer ==
    [i \in 1..Len(create_deck) |->
        create_deck[IF i <= 2 THEN i
                    ELSE IF i <= 4 THEN Len(create_deck) - 4 + i
                    ELSE i - 2]]

\* the shuffles of a window session: the streams 1..NumWindowSeeds and, as 0, the
\* outcome LowCardsToPlayer
WindowSeeds == 0..NumWindowSeeds

ShuffledDeck ==
    [seed \in Seeds \cup WindowSeeds |->
        IF seed = 0 THEN LowCardsToPlayer ELSE shuffle(create_deck, seed)]

----------------------------------------------------------------------------
(* Scoring *)

rank_of(c) == SubSeq(c, 1, Len(c) - 1)

\* mutant: the court cards are scored by their place in the rank list
card_value_court_by_place(c) ==
    IF rank_of(c) \in {<<"J">>, <<"Q">>, <<"K">>}
    THEN CHOOSE i \in 1..Len(ranks) : ranks[i] = rank_of(c)
    ELSE IF rank_of(c) = <<"A">> THEN 11
    ELSE int(rank_of(c))

\* mutant: the Ace is scored 1 at the card level
card_value_ace_low(c) ==
    IF rank_of(c) \in {<<"J">>, <<"Q">>, <<"K">>} THEN 10
    ELSE IF rank_of(c) = <<"A">> THEN 1
    ELSE int(rank_of(c))

card_value(c) ==
    IF rank_of(c) \in {<<"J">>, <<"Q">>, <<"K">>} THEN 10
    ELSE IF rank_of(c) = <<"A">> THEN 11
    ELSE int(rank_of(c))

\* card_value raises what int(rank) raises; no other line of it can raise
card_value_raises(c) ==
    /\ rank_of(c) \notin {<<"J">>, <<"Q">>, <<"K">>}
    /\ rank_of(c) # <<"A">>
    /\ int_raises(rank_of(c))

RECURSIVE sum_values(_)
sum_values(h) == IF h = <<>> THEN 0 ELSE card_value(Head(h)) + sum_values(Tail(h))

\* mutant: only the Aces at the front of the hand are counted
RECURSIVE count_aces_leading(_)
count_aces_leading(h) ==
    IF h = <<>> \/ rank_of(Head(h)) # <<"A">> THEN 0
    ELSE 1 + count_aces_leading(Tail(h))

RECURSIVE count_aces(_)
count_aces(h) ==
    IF h = <<>> THEN 0
    ELSE (IF rank_of(Head(h)) = <<"A">> THEN 1 ELSE 0) + count_aces(Tail(h))

\* mutant: an Ace is also downgraded at exactly 21
RECURSIVE downgrade_aces_at_21(_, _)
downgrade_aces_at_21(t, ace_count) ==
    IF t >= 21 /\ ace_count > 0 THEN downgrade_aces_at_21(t - 10, ace_count - 1) ELSE t

RECURSIVE downgrade_aces(_, _)
downgrade_aces(t, ace_count) ==
    IF t > 21 /\ ace_count > 0 THEN downgrade_aces(t - 10, ace_count - 1) ELSE t

hand_total(h) == downgrade_aces(sum_values(h), count_aces(h))

player_total == hand_total(player_hand)
dealer_total == hand_total(dealer_hand)

----------------------------------------------------------------------------
(* The engine's methods, as functions of the engine state g *)

G == [deck |-> deck, deck_position |-> deck_position, player_hand |-> player_hand,
      dealer_hand |-> dealer_hand, dealer_hidden_revealed |-> dealer_hidden_revealed]

\* mutant: the hole card is left revealed
new_round_revealed(seed) ==
    [deck |-> ShuffledDeck[seed], deck_position |-> 0, player_hand |-> <<>>,
     dealer_hand |-> <<>>, dealer_hidden_revealed |-> TRUE]

new_round(seed) ==
    [deck |-> ShuffledDeck[seed], deck_position |-> 0, player_hand |-> <<>>,
     dealer_hand |-> <<>>, dealer_hidden_revealed |-> FALSE]

\* mutant: the shoe is rebuilt one card early
deck_exhausted_early(g) == g.deck_position >= Len(g.deck) - 1

\* mutant: the shoe is rebuilt only once the cursor is past its end
deck_exhausted_past_end(g) == g.deck_position > Len(g.deck)

deck_exhausted(g) == g.deck_position >= Len(g.deck)

\* mutant: the cursor is not advanced
draw_card_no_advance(g, seed) ==
    LET g1 == IF deck_exhausted(g)
              THEN [g EXCEPT !.deck = ShuffledDeck[seed], !.deck_position = 0]
              ELSE g
    IN  IF g1.deck_position >= Len(g1.deck)
        THEN [g |-> g1, card |-> <<>>, rebuilt |-> deck_exhausted(g), raised |-> "IndexError"]
        ELSE [g |-> g1, card |-> g1.deck[g1.deck_position + 1],
              rebuilt |-> deck_exhausted(g), raised |-> "none"]

\* mutant: the index wraps around the shoe, which is never rebuilt nor the cursor reset
draw_card_wrapping(g, seed) ==
    [g |-> [g EXCEPT !.deck_position = g.deck_position + 1],
     card |-> g.deck[(g.deck_position % Len(g.deck)) + 1],
     rebuilt |-> FALSE, raised |-> "none"]

\* mutant: every draw passes over one card of the shoe
draw_card_skipping(g, seed) ==
    LET g1 == IF deck_exhausted(g)
              THEN [g EXCEPT !.deck = ShuffledDeck[seed], !.deck_position = 0]
              ELSE g
    IN  IF g1.deck_position + 1 >= Len(g1.deck)
        THEN [g |-> g1, card |-> <<>>, rebuilt |-> deck_exhausted(g), raised |-> "IndexError"]
        ELSE [g |-> [g1 EXCEPT !.deck_position = g1.deck_position + 2],
              card |-> g1.deck[g1.deck_position + 2],
              rebuilt |-> deck_exhausted(g), raised |-> "none"]

\* rebuilt records that the exhaustion branch ran; raised is the IndexError of
\* self.deck[self.deck_position] when the index is out of range
draw_card(g, seed) ==
    LET g1 == IF deck_exhausted(g)
              THEN [g EXCEPT !.deck = ShuffledDeck[seed], !.deck_position = 0]
              ELSE g
    IN  IF g1.deck_position >= Len(g1.deck)
        THEN [g |-> g1, card |-> <<>>, rebuilt |-> deck_exhausted(g), raised |-> "IndexError"]
        ELSE [g |-> [g1 EXCEPT !.deck_position = g1.deck_position + 1],
              card |-> g1.deck[g1.deck_position + 1],
              rebuilt |-> deck_exhausted(g), raised |-> "none"]

\* n consecutive self.draw_card() calls; the list of their outcomes, cut short
\* at the first one that raises
RECURSIVE draw_cards(_, _, _)
draw_cards(g, seed, n) ==
    IF n = 0 THEN <<>>
    ELSE LET rs == draw_cards(g, seed, n - 1)
         IN  IF rs = <<>> THEN <<draw_card(g, seed)>>
             ELSE IF rs[Len(rs)].raised # "none" THEN rs
             ELSE Append(rs, draw_card(rs[Len(rs)].g, seed))

completed(rs, n) == Len(rs) = n /\ rs[n].raised = "none"

\* mutant: the four cards are dealt alternately, player, dealer, player, dealer
deal_initial_cards_alternating(g, seed) ==
    LET rs == draw_cards(g, seed, 4)
    IN  IF completed(rs, 4)
        THEN [g |-> [rs[4].g EXCEPT !.player_hand = <<rs[1].card, rs[3].card>>,
                                    !.dealer_hand = <<rs[2].card, rs[4].card>>],
              draws |-> rs, raised |-> "none"]
        ELSE [g |-> rs[Len(rs)].g, draws |-> rs, raised |-> rs[Len(rs)].raised]

\* mutant: the dealt cards are added to the cards already held
deal_initial_cards_extending(g, seed) ==
    LET rs == draw_cards(g, seed, 4)
    IN  IF completed(rs, 4)
        THEN [g |-> [rs[4].g EXCEPT !.player_hand = g.player_hand \o <<rs[1].card, rs[2].card>>,
                                    !.dealer_hand = g.dealer_hand \o <<rs[3].card, rs[4].card>>],
              draws |-> rs, raised |-> "none"]
        ELSE [g |-> rs[Len(rs)].g, draws |-> rs, raised |-> rs[Len(rs)].raised]

deal_initial_cards(g, seed) ==
    LET ps == draw_cards(g, seed, 2)
    IN  IF ~completed(ps, 2)
        THEN [g |-> ps[Len(ps)].g, draws |-> ps, raised |-> ps[Len(ps)].raised]
        ELSE LET ds == draw_cards([ps[2].g EXCEPT !.player_hand = <<ps[1].card, ps[2].card>>],
                                  seed, 2)
             IN  IF ~completed(ds, 2)
                 THEN [g |-> ds[Len(ds)].g, draws |-> ps \o ds, raised |-> ds[Len(ds)].raised]
                 ELSE [g |-> [ds[2].g EXCEPT !.dealer_hand = <<ds[1].card, ds[2].card>>],
                       draws |-> ps \o ds, raised |-> "none"]

\* mutant: a hit is refused once the hole card has been revealed
player_hit_refused_when_revealed(g, seed) ==
    LET r == draw_card(g, seed)
    IN  IF g.dealer_hidden_revealed
        THEN [g |-> g, card |-> <<>>, rebuilt |-> FALSE, raised |-> "none"]
        ELSE IF r.raised # "none" THEN r
        ELSE [r EXCEPT !.g = [r.g EXCEPT !.player_hand = Append(r.g.player_hand, r.card)]]

\* mutant: the drawn card is put in front of the player's cards
player_hit_in_front(g, seed) ==
    LET r == draw_card(g, seed)
    IN  IF r.raised # "none" THEN r
        ELSE [r EXCEPT !.g = [r.g EXCEPT !.player_hand = <<r.card>> \o r.g.player_hand]]

\* mutant: a hit hides the hole card again
player_hit_hiding(g, seed) ==
    LET r == draw_card(g, seed)
    IN  IF r.raised # "none" THEN r
        ELSE [r EXCEPT !.g = [r.g EXCEPT !.player_hand = Append(r.g.player_hand, r.card),
                                         !.dealer_hidden_revealed = FALSE]]

player_hit(g, seed) ==
    LET r == draw_card(g, seed)
    IN  IF r.raised # "none" THEN r
        ELSE [r EXCEPT !.g = [r.g EXCEPT !.player_hand = Append(r.g.player_hand, r.card)]]

\* mutant: revealing also takes the hole card out of the dealer's hand
reveal_dealer_card_taking_hole(g) ==
    [g EXCEPT !.dealer_hidden_revealed = TRUE,
              !.dealer_hand = IF g.dealer_hand = <<>> THEN <<>> ELSE Tail(g.dealer_hand)]

\* mutant: the flag is toggled instead of set
reveal_dealer_card_toggle(g) == [g EXCEPT !.dealer_hidden_revealed = ~g.dealer_hidden_revealed]

reveal_dealer_card(g) == [g EXCEPT !.dealer_hidden_revealed = TRUE]

\* mutant: the drawn card is put in front of the dealer's cards
dealer_append_in_front(g, c) == [g EXCEPT !.dealer_hand = <<c>> \o g.dealer_hand]

\* mutant: the drawn card never reaches the dealer's hand
dealer_append_dropped(g, c) == g

\* mutant: the drawn card is appended to the player's hand
dealer_append_to_player(g, c) == [g EXCEPT !.player_hand = Append(g.player_hand, c)]

\* self.dealer_hand.append(card) in the loop of play_dealer_turn
dealer_append(g, c) == [g EXCEPT !.dealer_hand = Append(g.dealer_hand, c)]

\* mutant: the dealer never draws
dealer_must_hit_never(t) == FALSE

\* mutant: the dealer stops at 16
dealer_must_hit_below_16(t) == t < 16

\* mutant: the dealer also hits on 17
dealer_must_hit_on_17(t) == t <= 17

dealer_must_hit(t) == t < 17

\* mutant: the dealer's bust is tested before the player's
decide_winner_dealer_first(g) ==
    LET p_total == hand_total(g.player_hand)
        d_total == hand_total(g.dealer_hand)
    IN  [g |-> [g EXCEPT !.dealer_hidden_revealed = TRUE],
         result |-> IF d_total > 21 THEN "Dealer busts. Player wins!"
                    ELSE IF p_total > 21 THEN "Player busts. Dealer wins!"
                    ELSE IF p_total > d_total THEN "Player wins!"
                    ELSE IF d_total > p_total THEN "Dealer wins!"
                    ELSE "Push (tie)."]

\* mutant: the outcome is computed without revealing the hole card
decide_winner_hole_hidden(g) ==
    LET p_total == hand_total(g.player_hand)
        d_total == hand_total(g.dealer_hand)
    IN  [g |-> g,
         result |-> IF p_total > 21 THEN "Player busts. Dealer wins!"
                    ELSE IF d_total > 21 THEN "Dealer busts. Player wins!"
                    ELSE IF p_total > d_total THEN "Player wins!"
                    ELSE IF d_total > p_total THEN "Dealer wins!"
                    ELSE "Push (tie)."]

decide_winner(g) ==
    LET p_total == hand_total(g.player_hand)
        d_total == hand_total(g.dealer_hand)
    IN  [g |-> [g EXCEPT !.dealer_hidden_revealed = TRUE],
         result |-> IF p_total > 21 THEN "Player busts. Dealer wins!"
                    ELSE IF d_total > 21 THEN "Dealer busts. Player wins!"
                    ELSE IF p_total > d_total THEN "Player wins!"
                    ELSE IF d_total > p_total THEN "Dealer wins!"
                    ELSE "Push (tie)."]

----------------------------------------------------------------------------
(* The calls a consumer can make, one action per call *)

SetEngine(g) ==
    /\ deck' = g.deck
    /\ deck_position' = g.deck_position
    /\ player_hand' = g.player_hand
    /\ dealer_hand' = g.dealer_hand
    /\ dealer_hidden_revealed' = g.dealer_hidden_revealed

\* history of the cards draw_card returned since the shoe was last built
LogDraw(log, r) ==
    IF r.raised # "none" THEN log
    ELSE IF r.rebuilt THEN <<r.card>>
    ELSE Append(log, r.card)

RECURSIVE LogDraws(_, _)
LogDraws(log, rs) ==
    IF rs = <<>> THEN log ELSE LogDraws(LogDraw(log, Head(rs)), Tail(rs))

HandsEmpty == player_hand = <<>> /\ dealer_hand = <<>>

NoReturn ==
    /\ card' = <<>>
    /\ drawn_cards' = <<>>
    /\ result' = ""

NoEntry ==
    /\ entry_hand' = <<>>
    /\ entry_position' = 0

\* the engine used on its own, as the quick tests do: no window exists
NoWindow ==
    /\ hitButton = FALSE
    /\ standButton = FALSE
    /\ feedbackLabel = ""
    /\ stats = [wins |-> 0, losses |-> 0, pushes |-> 0]
    /\ round_hits = 0
    /\ round_decisions = 0
    /\ decisions = 0
    /\ rounds = 0

Init ==
    /\ NoWindow
    /\ \E seed \in Seeds :
          /\ deck = new_round(seed).deck
          /\ deck_position = new_round(seed).deck_position
          /\ player_hand = new_round(seed).player_hand
          /\ dealer_hand = new_round(seed).dealer_hand
          /\ dealer_hidden_revealed = new_round(seed).dealer_hidden_revealed
    /\ pc = "idle"
    /\ op = "init"
    /\ card = <<>>
    /\ drawn_cards = <<>>
    /\ result = ""
    /\ raised = "none"
    /\ entry_hand = <<>>
    /\ entry_position = 0
    /\ dealt_log = <<>>
    /\ rebuilt = FALSE
    /\ direct_run = 0
    /\ hand = <<>>
    /\ total = -1

NewRound ==
    /\ UNCHANGED gui
    /\ pc = "idle"
    /\ \E seed \in Seeds : SetEngine(new_round(seed))
    /\ op' = "new_round"
    /\ raised' = "none"
    /\ dealt_log' = <<>>
    /\ rebuilt' = FALSE
    /\ direct_run' = 0
    /\ NoReturn /\ NoEntry
    /\ UNCHANGED <<pc, hand, total>>

DealInitialCards ==
    /\ UNCHANGED gui
    /\ pc = "idle"
    /\ \E seed \in Seeds :
          LET r == deal_initial_cards(G, seed)
          IN  /\ SetEngine(r.g)
              /\ raised' = r.raised
              /\ dealt_log' = LogDraws(dealt_log, r.draws)
              /\ rebuilt' = (\E i \in 1..Len(r.draws) : r.draws[i].rebuilt)
    /\ direct_run' = 0
    /\ op' = "deal_initial_cards"
    /\ NoReturn /\ NoEntry
    /\ UNCHANGED <<pc, hand, total>>

DrawCard ==
    /\ UNCHANGED gui
    /\ pc = "idle"
    /\ HandsEmpty \/ direct_run < MaxDirectRun
    /\ \E seed \in Seeds :
          LET r == draw_card(G, seed)
          IN  /\ SetEngine(r.g)
              /\ card' = r.card
              /\ raised' = r.raised
              /\ dealt_log' = LogDraw(dealt_log, r)
              /\ rebuilt' = r.rebuilt
    /\ direct_run' = IF HandsEmpty THEN 0 ELSE direct_run + 1
    /\ op' = "draw_card"
    /\ drawn_cards' = <<>>
    /\ result' = ""
    /\ NoEntry
    /\ UNCHANGED <<pc, hand, total>>

PlayerHit ==
    /\ UNCHANGED gui
    /\ pc = "idle"
    /\ Len(player_hand) < MaxPlayerHand
    /\ \E seed \in Seeds :
          LET r == player_hit(G, seed)
          IN  /\ SetEngine(r.g)
              /\ card' = r.card
              /\ raised' = r.raised
              /\ dealt_log' = LogDraw(dealt_log, r)
              /\ rebuilt' = r.rebuilt
    /\ direct_run' = 0
    /\ op' = "player_hit"
    /\ drawn_cards' = <<>>
    /\ result' = ""
    /\ NoEntry
    /\ UNCHANGED <<pc, hand, total>>

RevealDealerCard ==
    /\ UNCHANGED gui
    /\ pc = "idle"
    /\ SetEngine(reveal_dealer_card(G))
    /\ op' = "reveal_dealer_card"
    /\ raised' = "none"
    /\ NoReturn /\ NoEntry
    /\ rebuilt' = FALSE
    /\ UNCHANGED <<pc, dealt_log, direct_run, hand, total>>

\* play_dealer_turn up to the first evaluation of the while condition
PlayDealerTurn ==
    /\ UNCHANGED gui
    /\ pc = "idle"
    /\ SetEngine([G EXCEPT !.dealer_hidden_revealed = TRUE])
    /\ drawn_cards' = <<>>
    /\ pc' = "dealer_loop"
    /\ op' = "play_dealer_turn"
    /\ raised' = "none"
    /\ card' = <<>>
    /\ result' = ""
    /\ entry_hand' = dealer_hand
    /\ entry_position' = deck_position
    /\ rebuilt' = FALSE
    /\ UNCHANGED <<dealt_log, direct_run, hand, total>>

\* one iteration of the while body
DealerDraw ==
    /\ UNCHANGED gui
    /\ pc = "dealer_loop"
    /\ dealer_must_hit(dealer_total)
    /\ \E seed \in Seeds :
          LET r == draw_card(G, seed)
          IN  /\ raised' = r.raised
              /\ dealt_log' = LogDraw(dealt_log, r)
              /\ rebuilt' = (rebuilt \/ r.rebuilt)
              /\ IF r.raised # "none"
                 THEN /\ SetEngine(r.g)
                      /\ pc' = "idle"
                      /\ UNCHANGED drawn_cards
                 ELSE /\ SetEngine(dealer_append(r.g, r.card))
                      /\ drawn_cards' = Append(drawn_cards, r.card)
                      /\ UNCHANGED pc
    /\ direct_run' = 0
    /\ UNCHANGED <<op, card, result, entry_hand, entry_position, hand, total>>

\* the while condition is false: return drawn_cards
DealerReturn ==
    /\ UNCHANGED gui
    /\ pc = "dealer_loop"
    /\ ~dealer_must_hit(dealer_total)
    /\ pc' = "idle"
    /\ UNCHANGED <<deck, deck_position, player_hand, dealer_hand, dealer_hidden_revealed,
                   op, card, drawn_cards, result, raised, entry_hand, entry_position,
                   dealt_log, rebuilt, direct_run, hand, total>>

DecideWinner ==
    /\ UNCHANGED gui
    /\ pc = "idle"
    /\ LET r == decide_winner(G)
       IN  /\ SetEngine(r.g)
           /\ result' = r.result
    /\ op' = "decide_winner"
    /\ raised' = "none"
    /\ card' = <<>>
    /\ drawn_cards' = <<>>
    /\ NoEntry
    /\ rebuilt' = FALSE
    /\ UNCHANGED <<pc, dealt_log, direct_run, hand, total>>

Next ==
    \/ NewRound
    \/ DealInitialCards
    \/ DrawCard
    \/ PlayerHit
    \/ RevealDealerCard
    \/ PlayDealerTurn
    \/ DealerDraw
    \/ DealerReturn
    \/ DecideWinner

Spec == Init /\ [][Next]_vars

\* a call runs to completion: the loop of play_dealer_turn keeps stepping
SpecFair == Spec /\ WF_vars(DealerDraw) /\ WF_vars(DealerReturn)

-----------------------------------------------------------------------------
(* The window of main.py: MainWindow drives one Game21 through its three    *)
(* buttons. A handler runs to completion, so each is one action.            *)

\* the characters of the texts that decide_winner returns and update_stats looks for
characters ==
    "Player busts. Dealer wins!" :>
        <<"P", "l", "a", "y", "e", "r", " ", "b", "u", "s", "t", "s", ".", " ",
           "D", "e", "a", "l", "e", "r", " ", "w", "i", "n", "s",
           "!">> @@
    "Dealer busts. Player wins!" :>
        <<"D", "e", "a", "l", "e", "r", " ", "b", "u", "s", "t", "s", ".", " ",
           "P", "l", "a", "y", "e", "r", " ", "w", "i", "n", "s",
           "!">> @@
    "Player wins!" :>
        <<"P", "l", "a", "y", "e", "r", " ", "w", "i", "n", "s", "!">> @@
    "Dealer wins!" :>
        <<"D", "e", "a", "l", "e", "r", " ", "w", "i", "n", "s", "!">> @@
    "Push (tie)." :>
        <<"P", "u", "s", "h", " ", "(", "t", "i", "e", ")", ".">> @@
    "Player wins" :>
        <<"P", "l", "a", "y", "e", "r", " ", "w", "i", "n", "s">> @@
    "Dealer busts" :>
        <<"D", "e", "a", "l", "e", "r", " ", "b", "u", "s", "t", "s">> @@
    "Dealer wins" :>
        <<"D", "e", "a", "l", "e", "r", " ", "w", "i", "n", "s">> @@
    "Player busts" :>
        <<"P", "l", "a", "y", "e", "r", " ", "b", "u", "s", "t", "s">> @@
    "Push" :>
        <<"P", "u", "s", "h">> @@
    "tie" :>
        <<"t", "i", "e">>

\* needle in text, for two strings
contains(text, needle) ==
    \E i \in 0..(Len(characters[text]) - Len(characters[needle])) :
        SubSeq(characters[text], i + 1, i + Len(characters[needle])) = characters[needle]

\* mutant: a dealer bust is never counted
update_stats_dealer_bust_missed(s, result_text) ==
    IF contains(result_text, "Player wins") /\ ~contains(result_text, "Dealer busts")
    THEN [s EXCEPT !.wins = @ + 1]
    ELSE IF contains(result_text, "Dealer wins") /\ ~contains(result_text, "Dealer busts")
    THEN [s EXCEPT !.losses = @ + 1]
    ELSE IF contains(result_text, "Push") \/ contains(result_text, "tie")
    THEN [s EXCEPT !.pushes = @ + 1]
    ELSE s

update_stats(s, result_text) ==
    IF contains(result_text, "Player wins") \/ contains(result_text, "Dealer busts")
    THEN [s EXCEPT !.wins = @ + 1]
    ELSE IF contains(result_text, "Dealer wins") \/ contains(result_text, "Player busts")
    THEN [s EXCEPT !.losses = @ + 1]
    ELSE IF contains(result_text, "Push") \/ contains(result_text, "tie")
    THEN [s EXCEPT !.pushes = @ + 1]
    ELSE s

\* the while loop of play_dealer_turn run to its end; draws are the draw_card results
RECURSIVE dealer_loop(_, _, _)
dealer_loop(g, seed, draws) ==
    IF ~dealer_must_hit(hand_total(g.dealer_hand))
    THEN [g |-> g, draws |-> draws, raised |-> "none"]
    ELSE IF draw_card(g, seed).raised # "none"
    THEN [g |-> draw_card(g, seed).g, draws |-> draws, raised |-> draw_card(g, seed).raised]
    ELSE dealer_loop(dealer_append(draw_card(g, seed).g, draw_card(g, seed).card), seed,
                     Append(draws, draw_card(g, seed)))

play_dealer_turn(g, seed) ==
    dealer_loop([g EXCEPT !.dealer_hidden_revealed = TRUE], seed, <<>>)

CardsDrawn(draws) == [i \in 1..Len(draws) |-> draws[i].card]

\* mutant: a bust is never noticed
player_bust_never(t) == FALSE

\* mutant: a total of 22 is not taken for a bust
player_bust_above_22(t) == t > 22

\* the test of on_hit
player_bust(t) == t > 21

\* mutant: end_round leaves the Stand button enabled
end_round_stand_left_enabled(enabled) == [hit |-> FALSE, stand |-> TRUE]

\* mutant: end_round leaves the Hit button enabled
end_round_hit_left_enabled(enabled) == [hit |-> TRUE, stand |-> FALSE]

\* the button states end_round leaves
end_round(enabled) == [hit |-> FALSE, stand |-> FALSE]

\* new_round_setup on the engine state g: deal, show, enable the controls
NewRoundSetup(g, seed) ==
    /\ \E dealt \in {deal_initial_cards(g, seed)} :
          /\ SetEngine(dealt.g)
          /\ raised' = dealt.raised
          /\ dealt_log' = LogDraws(<<>>, dealt.draws)
    /\ feedbackLabel' = ""
    /\ hitButton' = TRUE
    /\ standButton' = TRUE
    /\ round_hits' = 0
    /\ round_decisions' = 0

\* MainWindow.__init__: Game21(), zero statistics, initUI ending in new_round_setup
InitWindow ==
    /\ \E seed \in WindowSeeds :
          \E dealt \in {deal_initial_cards(new_round(seed), seed)} :
             /\ deck = dealt.g.deck
             /\ deck_position = dealt.g.deck_position
             /\ player_hand = dealt.g.player_hand
             /\ dealer_hand = dealt.g.dealer_hand
             /\ dealer_hidden_revealed = dealt.g.dealer_hidden_revealed
             /\ raised = dealt.raised
             /\ dealt_log = LogDraws(<<>>, dealt.draws)
    /\ pc = "idle"
    /\ op = "__init__"
    /\ card = <<>>
    /\ drawn_cards = <<>>
    /\ result = ""
    /\ entry_hand = <<>>
    /\ entry_position = 0
    /\ rebuilt = FALSE
    /\ direct_run = 0
    /\ hand = <<>>
    /\ total = -1
    /\ hitButton = TRUE
    /\ standButton = TRUE
    /\ feedbackLabel = ""
    /\ stats = [wins |-> 0, losses |-> 0, pushes |-> 0]
    /\ round_hits = 0
    /\ round_decisions = 0
    /\ decisions = 0
    /\ rounds = 1

\* a click on Hit
OnHit ==
    /\ hitButton
    /\ \E seed \in WindowSeeds :
          \E h \in {player_hit(G, seed)} : \E d \in {decide_winner(h.g)} :
              /\ card' = h.card
              /\ raised' = h.raised
              /\ rebuilt' = h.rebuilt
              /\ dealt_log' = LogDraw(dealt_log, h)
              /\ IF h.raised = "none" /\ player_bust(hand_total(h.g.player_hand))
                 THEN /\ SetEngine(d.g)
                      /\ result' = d.result
                      /\ stats' = update_stats(stats, d.result)
                      /\ feedbackLabel' = d.result
                      /\ hitButton' = end_round([hit |-> hitButton, stand |-> standButton]).hit
                      /\ standButton' = end_round([hit |-> hitButton, stand |-> standButton]).stand
                      /\ round_decisions' = round_decisions + 1
                      /\ decisions' = decisions + 1
                 ELSE /\ SetEngine(h.g)
                      /\ UNCHANGED <<result, stats, feedbackLabel, hitButton, standButton,
                                     round_decisions, decisions>>
    /\ op' = "on_hit"
    /\ round_hits' = round_hits + 1
    /\ drawn_cards' = <<>>
    /\ NoEntry
    /\ UNCHANGED <<pc, direct_run, hand, total, rounds>>

\* a click on Stand
OnStand ==
    /\ standButton
    /\ \E seed \in WindowSeeds :
          \E t \in {play_dealer_turn(reveal_dealer_card(G), seed)} :
          \E d \in {decide_winner(t.g)} :
              /\ raised' = t.raised
              /\ drawn_cards' = CardsDrawn(t.draws)
              /\ dealt_log' = LogDraws(dealt_log, t.draws)
              /\ rebuilt' = (\E i \in 1..Len(t.draws) : t.draws[i].rebuilt)
              /\ IF t.raised = "none"
                 THEN /\ SetEngine(d.g)
                      /\ result' = d.result
                      /\ stats' = update_stats(stats, d.result)
                      /\ feedbackLabel' = d.result
                      /\ hitButton' = end_round([hit |-> hitButton, stand |-> standButton]).hit
                      /\ standButton' = end_round([hit |-> hitButton, stand |-> standButton]).stand
                      /\ round_decisions' = round_decisions + 1
                      /\ decisions' = decisions + 1
                 ELSE /\ SetEngine(t.g)
                      /\ UNCHANGED <<result, stats, feedbackLabel, hitButton, standButton,
                                     round_decisions, decisions>>
    /\ op' = "on_stand"
    /\ card' = <<>>
    /\ entry_hand' = dealer_hand
    /\ entry_position' = deck_position
    /\ UNCHANGED <<pc, direct_run, hand, total, round_hits, rounds>>

\* a click on New Round
OnNewRound ==
    /\ rounds < MaxRounds
    /\ \E seed \in WindowSeeds : NewRoundSetup(new_round(seed), seed)
    /\ op' = "on_new_round"
    /\ rounds' = rounds + 1
    /\ rebuilt' = FALSE
    /\ NoReturn /\ NoEntry
    /\ UNCHANGED <<pc, direct_run, hand, total, stats, decisions>>

NextWindow ==
    \/ OnHit
    \/ OnStand
    \/ OnNewRound

SpecWindow == InitWindow /\ [][NextWindow]_vars

\* the steps of on_hit: it is the only handler that counts a Hit click, and it can
\* run whenever the Hit button is enabled
HitClicked == hitButton /\ round_hits' = round_hits + 1

\* a player who keeps acting: an enabled Hit button is eventually clicked
SpecWindowFair == SpecWindow /\ WF_round_hits(HitClicked)

----------------------------------------------------------------------------
(* Direct calls of the pure method hand_total(hand), as the quick tests make *)

\* the arguments are built from one card of every rank, the suits taken in turn
HandCards == {ranks[i] \o <<suits[((i - 1) % Len(suits)) + 1]>> : i \in 1..Len(ranks)}
HandArgs == UNION {[1..n -> HandCards] : n \in 0..MaxHandLen}

InitHandTotal ==
    /\ NoWindow
    /\ deck = new_round(1).deck
    /\ deck_position = new_round(1).deck_position
    /\ player_hand = new_round(1).player_hand
    /\ dealer_hand = new_round(1).dealer_hand
    /\ dealer_hidden_revealed = new_round(1).dealer_hidden_revealed
    /\ pc = "idle"
    /\ op = "init"
    /\ card = <<>>
    /\ drawn_cards = <<>>
    /\ result = ""
    /\ raised = "none"
    /\ entry_hand = <<>>
    /\ entry_position = 0
    /\ dealt_log = <<>>
    /\ rebuilt = FALSE
    /\ direct_run = 0
    /\ hand \in HandArgs
    /\ total = -1

CallHandTotal ==
    /\ UNCHANGED gui
    /\ op = "init"
    /\ total' = hand_total(hand)
    /\ op' = "hand_total"
    /\ UNCHANGED <<deck, deck_position, player_hand, dealer_hand, dealer_hidden_revealed,
                   pc, card, drawn_cards, result, raised, entry_hand, entry_position,
                   dealt_log, rebuilt, direct_run, hand>>

NextHandTotal == CallHandTotal

SpecHandTotal == InitHandTotal /\ [][NextHandTotal]_vars

-----------------------------------------------------------------------------
(* Direct calls of hand_total on hands of different cards of one deck: the  *)
(* ranks of a hand are taken in the order of the rank list, and the k-th    *)
(* card of a rank takes the k-th suit                                       *)

\* the non-decreasing sequences of n rank indices that are all >= lo
RECURSIVE RankRuns(_, _)
RankRuns(n, lo) ==
    IF n = 0 THEN {<<>>}
    ELSE UNION {{<<i>> \o t : t \in RankRuns(n - 1, i)} : i \in lo..Len(ranks)}

TimesBefore(ix, i) == Cardinality({j \in 1..i : ix[j] = ix[i]})

DeckHand(ix) == [i \in 1..Len(ix) |-> ranks[ix[i]] \o <<suits[TimesBefore(ix, i)]>>]

DeckHandArgs ==
    {DeckHand(ix) : ix \in {x \in UNION {RankRuns(n, 1) : n \in 0..MaxDeckHandLen} :
                                \A i \in 1..Len(x) : TimesBefore(x, i) <= Len(suits)}}

InitDeckHandTotal ==
    /\ NoWindow
    /\ deck = new_round(1).deck
    /\ deck_position = new_round(1).deck_position
    /\ player_hand = new_round(1).player_hand
    /\ dealer_hand = new_round(1).dealer_hand
    /\ dealer_hidden_revealed = new_round(1).dealer_hidden_revealed
    /\ pc = "idle"
    /\ op = "init"
    /\ card = <<>>
    /\ drawn_cards = <<>>
    /\ result = ""
    /\ raised = "none"
    /\ entry_hand = <<>>
    /\ entry_position = 0
    /\ dealt_log = <<>>
    /\ rebuilt = FALSE
    /\ direct_run = 0
    /\ hand \in DeckHandArgs
    /\ total = -1

SpecDeckHandTotal == InitDeckHandTotal /\ [][NextHandTotal]_vars

-----------------------------------------------------------------------------
(* Direct calls of the pure method card_value(card) on every card of the deck *)

CardArgs == {create_deck[i] : i \in 1..Len(create_deck)}

InitCardValue ==
    /\ NoWindow
    /\ deck = new_round(1).deck
    /\ deck_position = new_round(1).deck_position
    /\ player_hand = new_round(1).player_hand
    /\ dealer_hand = new_round(1).dealer_hand
    /\ dealer_hidden_revealed = new_round(1).dealer_hidden_revealed
    /\ pc = "idle"
    /\ op = "init"
    /\ card \in CardArgs
    /\ drawn_cards = <<>>
    /\ result = ""
    /\ raised = "none"
    /\ entry_hand = <<>>
    /\ entry_position = 0
    /\ dealt_log = <<>>
    /\ rebuilt = FALSE
    /\ direct_run = 0
    /\ hand = <<>>
    /\ total = -1

CallCardValue ==
    /\ UNCHANGED gui
    /\ op = "init"
    /\ IF card_value_raises(card)
       THEN raised' = "ValueError" /\ UNCHANGED total
       ELSE raised' = "none" /\ total' = card_value(card)
    /\ op' = "card_value"
    /\ UNCHANGED <<deck, deck_position, player_hand, dealer_hand, dealer_hidden_revealed,
                   pc, card, drawn_cards, result, entry_hand, entry_position,
                   dealt_log, rebuilt, direct_run, hand>>

NextCardValue == CallCardValue

SpecCardValue == InitCardValue /\ [][NextCardValue]_vars

-----------------------------------------------------------------------------
(* Direct calls of card_value on card texts that are not in the deck: a     *)
(* rank text of up to MaxRankLen characters followed by one suit character  *)

RankChars == {"0", "1", "2", "X", "A", "K"}
SuitChars == {suits[i] : i \in 1..Len(suits)} \cup {"?"}
RankTexts == UNION {[1..n -> RankChars] : n \in 0..MaxRankLen}
OutsideCardArgs == {r \o <<u>> : r \in RankTexts, u \in SuitChars} \ CardArgs

InitOutsideCardValue ==
    /\ NoWindow
    /\ deck = new_round(1).deck
    /\ deck_position = new_round(1).deck_position
    /\ player_hand = new_round(1).player_hand
    /\ dealer_hand = new_round(1).dealer_hand
    /\ dealer_hidden_revealed = new_round(1).dealer_hidden_revealed
    /\ pc = "idle"
    /\ op = "init"
    /\ card \in OutsideCardArgs
    /\ drawn_cards = <<>>
    /\ result = ""
    /\ raised = "none"
    /\ entry_hand = <<>>
    /\ entry_position = 0
    /\ dealt_log = <<>>
    /\ rebuilt = FALSE
    /\ direct_run = 0
    /\ hand = <<>>
    /\ total = -1

SpecOutsideCardValue == InitOutsideCardValue /\ [][NextCardValue]_vars

----------------------------------------------------------------------------
(* Vocabulary of the properties *)

RankNames == {<<"A">>, <<"2">>, <<"3">>, <<"4">>, <<"5">>, <<"6">>, <<"7">>, <<"8">>,
              <<"9">>, <<"1", "0">>, <<"J">>, <<"Q">>, <<"K">>}
SuitNames == {"S", "H", "D", "C"}
StandardDeck == {r \o <<u>> : r \in RankNames, u \in SuitNames}

CardsOf(q) == {q[i] : i \in 1..Len(q)}
\* 52 positions holding the 52 different cards of the standard deck
IsFullShoe(d) == Len(d) = 52 /\ CardsOf(d) = StandardDeck /\ Cardinality(StandardDeck) = 52
\* no card occurs at two positions
PairwiseDistinct(q) == Cardinality(CardsOf(q)) = Len(q)

RanksOf(h) == [i \in 1..Len(h) |-> rank_of(h[i])]

RECURSIVE NonAceSum(_)
NonAceSum(h) ==
    IF h = <<>> THEN 0
    ELSE (IF rank_of(Head(h)) = <<"A">> THEN 0 ELSE card_value(Head(h))) + NonAceSum(Tail(h))

\* the totals obtained by counting k of the Aces as 11 and the others as 1
AceTotals(h) == {NonAceSum(h) + 11 * k + (count_aces(h) - k) : k \in 0..count_aces(h)}

BestTotal(h) ==
    IF \E t \in AceTotals(h) : t <= 21
    THEN CHOOSE t \in AceTotals(h) : t <= 21 /\ \A u \in AceTotals(h) : u <= 21 => u <= t
    ELSE NonAceSum(h) + count_aces(h)

----------------------------------------------------------------------------
(* C1: decide_winner returns the outcome of the first matching rule in the  *)
(* order player bust, dealer bust, player higher, dealer higher, push; when *)
(* both totals exceed 21 the outcome is the player-busts one.               *)
C1_DecideWinnerFirstMatch ==
    op = "decide_winner" =>
        /\ player_total > 21 => result = "Player busts. Dealer wins!"
        /\ (player_total <= 21 /\ dealer_total > 21) => result = "Dealer busts. Player wins!"
        /\ (player_total <= 21 /\ dealer_total <= 21 /\ player_total > dealer_total)
              => result = "Player wins!"
        /\ (player_total <= 21 /\ dealer_total <= 21 /\ dealer_total > player_total)
              => result = "Dealer wins!"
        /\ (player_total <= 21 /\ dealer_total <= 21 /\ dealer_total = player_total)
              => result = "Push (tie)."
        /\ (player_total > 21 /\ dealer_total > 21)
              => result \notin {"Push (tie).", "Player wins!", "Dealer busts. Player wins!"}

C1_Witness_BothBust ==
    /\ op = "decide_winner"
    /\ player_total > 21
    /\ dealer_total > 21
    /\ result = "Player busts. Dealer wins!"

(* C2: hand_total(hand) is the largest total <= 21 obtainable by counting    *)
(* each Ace as 1 or 11 when there is one, otherwise the total with every Ace *)
(* as 1; the empty hand gives 0; A,A,9 = 21, A,K = 21, A,9 = 20, A,A,A,8 = 21 *)
C2_HandTotalIsBest ==
    op = "hand_total" =>
        /\ total = BestTotal(hand)
        /\ hand = <<>> => total = 0
        /\ RanksOf(hand) = <<<<"A">>, <<"A">>, <<"9">>>> => total = 21
        /\ RanksOf(hand) = <<<<"A">>, <<"K">>>> => total = 21
        /\ RanksOf(hand) = <<<<"A">>, <<"9">>>> => total = 20
        /\ RanksOf(hand) = <<<<"A">>, <<"A">>, <<"A">>, <<"8">>>> => total = 21

C2_Witness_ThreeAces ==
    /\ op = "hand_total"
    /\ RanksOf(hand) = <<<<"A">>, <<"A">>, <<"A">>, <<"8">>>>
    /\ total = 21

(* C3: when play_dealer_turn returns, the dealer's total is at least 17 and *)
(* the hole card is revealed; and every card it draws is drawn while the    *)
(* dealer's total is below 17.                                              *)
C3_DealerTurnReaches17 ==
    [][/\ (pc = "dealer_loop" /\ pc' = "idle")
            => (hand_total(dealer_hand') >= 17 /\ dealer_hidden_revealed' = TRUE)
       /\ (pc = "dealer_loop" /\ dealer_hand' # dealer_hand) => dealer_total < 17]_vars

C3_Witness_DealerDrewTwice ==
    /\ op = "play_dealer_turn"
    /\ pc = "idle"
    /\ Len(drawn_cards) >= 2
    /\ dealer_total >= 17
    /\ dealer_hidden_revealed = TRUE

(* C4: the dealer stands on every total >= 17, soft 17 included: called     *)
(* with such a total, play_dealer_turn draws nothing, returns an empty      *)
(* sequence and leaves dealer_hand and the cursor unchanged.                *)
C4_DealerStandsOn17 ==
    (op = "play_dealer_turn" /\ hand_total(entry_hand) >= 17) =>
        /\ drawn_cards = <<>>
        /\ dealer_hand = entry_hand
        /\ deck_position = entry_position

C4_Witness_Soft17 ==
    /\ op = "play_dealer_turn"
    /\ pc = "idle"
    /\ Len(entry_hand) = 2
    /\ count_aces(entry_hand) = 1
    /\ hand_total(entry_hand) = 17
    /\ drawn_cards = <<>>
    /\ dealer_hand = entry_hand

C6_FiftyTwoDistinctDraws ==
    /\ Len(dealt_log) <= 52
    /\ PairwiseDistinct(dealt_log)
    /\ Len(dealt_log) = 52 => CardsOf(dealt_log) = StandardDeck

C6_Witness_WholeShoeDrawn ==
    /\ Len(dealt_log) = 52
    /\ CardsOf(dealt_log) = StandardDeck
    /\ deck_position = 52

(* C7: new_round, from any state, and construction leave the Fresh state:   *)
(* a full 52-card shoe, cursor 0, both hands empty, hole card hidden.       *)
C7_NewRoundIsFresh ==
    op \in {"init", "new_round"} =>
        /\ IsFullShoe(deck)
        /\ deck_position = 0
        /\ player_hand = <<>>
        /\ dealer_hand = <<>>
        /\ dealer_hidden_revealed = FALSE

C7_Witness_NewRound ==
    /\ op = "new_round"
    /\ deck_position = 0
    /\ HandsEmpty
    /\ dealer_hidden_revealed = FALSE

(* C8: deal_initial_cards right after new_round gives the player the first  *)
(* two cards of the shoe and the dealer the next two, leaves the cursor at  *)
(* 4 and the hole card hidden.                                              *)
C8_InitialDealOrder ==
    [][(op' = "deal_initial_cards" /\ op \in {"init", "new_round"}) =>
          /\ deck' = deck
          /\ player_hand' = <<deck[1], deck[2]>>
          /\ dealer_hand' = <<deck[3], deck[4]>>
          /\ deck_position' = 4
          /\ dealer_hidden_revealed' = FALSE]_vars

C8_Witness_FirstDeal ==
    /\ op = "deal_initial_cards"
    /\ dealt_log = <<deck[1], deck[2], deck[3], deck[4]>>
    /\ player_hand = <<deck[1], deck[2]>>
    /\ dealer_hand = <<deck[3], deck[4]>>
    /\ deck_position = 4
    /\ dealer_hidden_revealed = FALSE

C10_ShoeIsFullDeck ==
    /\ Len(deck) = 52
    /\ PairwiseDistinct(deck)
    /\ CardsOf(deck) = StandardDeck

C10_Witness_RebuiltShoe ==
    /\ rebuilt = TRUE
    /\ op = "player_hit"
    /\ Len(deck) = 52
    /\ CardsOf(deck) = StandardDeck


(* C11: in every reachable state the cursor deck_position is an integer in  *)
(* 0..52, whatever calls were made.                                         *)
C11_CursorInRange == deck_position \in 0..52

C11_Witness_CursorAt52 ==
    /\ deck_position = 52
    /\ op = "play_dealer_turn"
    /\ Len(drawn_cards) >= 1


\* the value the rules give to each rank
ValueOfRank ==
    [r \in RankNames |->
        CASE r = <<"A">> -> 11
          [] r \in {<<"J">>, <<"Q">>, <<"K">>, <<"1", "0">>} -> 10
          [] r = <<"2">> -> 2 [] r = <<"3">> -> 3 [] r = <<"4">> -> 4
          [] r = <<"5">> -> 5 [] r = <<"6">> -> 6 [] r = <<"7">> -> 7
          [] r = <<"8">> -> 8 [] r = <<"9">> -> 9]

(* C12: card_value gives every card of the 52-card deck the value of its    *)
(* rank, whatever the suit: 10 for J, Q, K, the number for 2..10, and 11    *)
(* (never 1) for an Ace.                                                    *)
C12_CardValueByRank ==
    op = "card_value" =>
        \E r \in RankNames, u \in SuitNames :
            /\ card = r \o <<u>>
            /\ total = ValueOfRank[r]
            /\ r = <<"A">> => total = 11 /\ total # 1
            /\ \A v \in SuitNames : card_value(r \o <<v>>) = total

C12_Witness_AceOfClubs ==
    /\ op = "card_value"
    /\ card = <<"A", "C">>
    /\ total = 11


C14_DealerTurnReturnsAppended ==
    [][op' = "play_dealer_turn" =>
          /\ raised' = "none"
          /\ player_hand' = player_hand
          /\ dealer_hand' = entry_hand' \o drawn_cards'
          /\ entry_position' + Len(drawn_cards') = deck_position' + (IF rebuilt' THEN 52 ELSE 0)
          /\ ~rebuilt' => drawn_cards' = SubSeq(deck', entry_position' + 1, deck_position')
          /\ rebuilt' => \A i \in 1..deck_position' :
                             drawn_cards'[Len(drawn_cards') - deck_position' + i] = deck'[i]]_vars

C14_Witness_ReturnedAcrossRebuild ==
    /\ op = "play_dealer_turn"
    /\ pc = "idle"
    /\ rebuilt
    /\ Len(drawn_cards) >= 2
    /\ deck_position < Len(drawn_cards)
    /\ Len(player_hand) >= 2


(* C15: play_dealer_turn terminates from every reachable state, whatever    *)
(* the dealer hand and the cursor and also when the shoe is regenerated in  *)
(* the loop, after a bounded number of draws (at most 17).                  *)
C15_DealerTurnTerminates ==
    /\ [](Len(drawn_cards) <= 17)
    /\ (pc = "dealer_loop") ~> (pc = "idle" /\ op = "play_dealer_turn" /\ raised = "none")

C15_Witness_EmptyHandTurn ==
    /\ op = "play_dealer_turn"
    /\ pc = "idle"
    /\ entry_hand = <<>>
    /\ Len(drawn_cards) >= 3
    /\ rebuilt


\* the total of a hand with every Ace counted as 1
HardTotal(h) == NonAceSum(h) + count_aces(h)

\* a step of the loop of play_dealer_turn that drew a card
DealerDrewCard == pc = "dealer_loop" /\ drawn_cards' # drawn_cards

(* C16 as stated: during play_dealer_turn each card drawn in the loop       *)
(* leaves dealer_total() at least as large as it was before that draw.      *)
C16_Original_TotalNeverDecreases ==
    [][DealerDrewCard => hand_total(dealer_hand') >= hand_total(dealer_hand)]_vars

(* C16 amended: each card drawn in the loop strictly increases the dealer's *)
(* hard total (Aces counted 1); dealer_total() strictly increases as well   *)
(* unless the draw turns a soft hand (an Ace counted 11) into a hard one,   *)
(* and then it drops by at most 9.                                          *)
C16_HardTotalIncreases ==
    [][DealerDrewCard =>
          /\ HardTotal(dealer_hand') > HardTotal(dealer_hand)
          /\ hand_total(dealer_hand') >= HardTotal(dealer_hand')
          /\ hand_total(dealer_hand') <= hand_total(dealer_hand) =>
                /\ hand_total(dealer_hand) = HardTotal(dealer_hand) + 10
                /\ hand_total(dealer_hand') = HardTotal(dealer_hand')
                /\ hand_total(dealer_hand') >= hand_total(dealer_hand) - 9]_vars

C16_Witness_SoftHandDrops ==
    /\ op = "play_dealer_turn"
    /\ Len(drawn_cards) >= 1
    /\ raised = "none"
    /\ hand_total(dealer_hand) < hand_total(SubSeq(dealer_hand, 1, Len(dealer_hand) - 1))


(* C17 as stated: for every hand of at most 5 cards of one standard deck    *)
(* hand_total(hand) lies in 0..30, and hand_total is never negative.        *)
C17_Original_AtMost30 ==
    op = "hand_total" =>
        /\ total >= 0
        /\ (Len(hand) <= 5 /\ PairwiseDistinct(hand) /\ CardsOf(hand) \subseteq StandardDeck)
              => total \in 0..30

(* C17 amended: for every hand of at most 5 cards of one standard deck      *)
(* hand_total(hand) lies in 0..50 (a card adds at most 10 once the hand     *)
(* has three cards; two cards give at most 21, one card at most 11), and    *)
(* hand_total is never negative.                                            *)
C17_AtMost50 ==
    op = "hand_total" =>
        /\ total >= 0
        /\ (Len(hand) <= 5 /\ PairwiseDistinct(hand) /\ CardsOf(hand) \subseteq StandardDeck)
              => /\ total \in 0..50
                 /\ total <= 10 * Len(hand) + 1
                 /\ Len(hand) >= 3 => total <= 10 * Len(hand)

C17_Witness_FiveCards50 ==
    /\ op = "hand_total"
    /\ Len(hand) = 5
    /\ PairwiseDistinct(hand)
    /\ CardsOf(hand) \subseteq StandardDeck
    /\ total = 50


\* the hand h with the cards at places i and j exchanged
Exchanged(h, i, j) ==
    [k \in 1..Len(h) |-> IF k = i THEN h[j] ELSE IF k = j THEN h[i] ELSE h[k]]

(* C18: hand_total depends only on the multiset of the cards: exchanging    *)
(* any two neighbouring cards of any hand (two Aces, or an Ace and another  *)
(* card, included) leaves the total unchanged; as every hand is checked and *)
(* such exchanges generate every permutation, every reordering of a hand    *)
(* has the same total and draw order never affects scoring.                 *)
C18_OrderIndependent ==
    op = "hand_total" =>
        \A i \in 1..(Len(hand) - 1) : hand_total(Exchanged(hand, i, i + 1)) = total

C18_Witness_AcesApart ==
    /\ op = "hand_total"
    /\ Len(hand) = 4
    /\ rank_of(hand[1]) = <<"A">>
    /\ rank_of(hand[2]) = <<"K">>
    /\ rank_of(hand[3]) = <<"A">>
    /\ rank_of(hand[4]) = <<"5">>
    /\ total = 17


(* C19: decide_winner has exactly one side effect, setting                  *)
(* dealer_hidden_revealed to true; player_hand, dealer_hand, the shoe and   *)
(* the cursor are unchanged, so a second call in the state it leaves        *)
(* returns the same outcome.                                                *)
C19_DecideWinnerFrame ==
    [][op' = "decide_winner" =>
          /\ dealer_hidden_revealed' = TRUE
          /\ player_hand' = player_hand
          /\ dealer_hand' = dealer_hand
          /\ deck' = deck
          /\ deck_position' = deck_position
          /\ raised' = "none"
          /\ decide_winner(G').result = result'
          /\ decide_winner(G').g = G'
          /\ op = "decide_winner" => result' = result]_vars

C19_Witness_DecidedFirstRound ==
    /\ op = "decide_winner"
    /\ Len(player_hand) = 3
    /\ Len(dealer_hand) = 2
    /\ deck_position = 5
    /\ dealer_hidden_revealed
    /\ result \in {"Player wins!", "Dealer wins!", "Push (tie)."}

(* C20: reveal_dealer_card is a pure flag flip: it sets                     *)
(* dealer_hidden_revealed to true and leaves player_hand, dealer_hand, both *)
(* totals, the shoe and the cursor unchanged; a second call changes nothing. *)
C20_RevealIsFlagFlip ==
    [][op' = "reveal_dealer_card" =>
          /\ dealer_hidden_revealed' = TRUE
          /\ player_hand' = player_hand
          /\ dealer_hand' = dealer_hand
          /\ hand_total(player_hand') = player_total
          /\ hand_total(dealer_hand') = dealer_total
          /\ deck' = deck
          /\ deck_position' = deck_position
          /\ raised' = "none"
          /\ reveal_dealer_card(G') = G']_vars

C20_Witness_RevealedAfterDeal ==
    /\ op = "reveal_dealer_card"
    /\ dealer_hidden_revealed
    /\ Len(player_hand) = 2
    /\ Len(dealer_hand) = 2
    /\ deck_position = 4


(* C21: reveal_dealer_card is idempotent: from every reachable state,       *)
(* calling it twice in a row leaves exactly the same engine state as        *)
(* calling it once.                                                         *)
C21_RevealIdempotent ==
    pc = "idle" => reveal_dealer_card(reveal_dealer_card(G)) = reveal_dealer_card(G)

C21_Witness_RevealWithHandsHeld ==
    /\ op = "reveal_dealer_card"
    /\ pc = "idle"
    /\ Len(player_hand) = 3
    /\ Len(dealer_hand) = 2
    /\ reveal_dealer_card(G) = G


\* the engine state as it was before decide_winner set the flag
Unresolved(g) == [g EXCEPT !.dealer_hidden_revealed = FALSE]

(* C22: the engine keeps no round-over state: after decide_winner has       *)
(* returned, player_hit and play_dealer_turn are still accepted and behave  *)
(* as before resolution (player_hit draws and appends a card, also when the *)
(* player has busted); only new_round takes the engine back to empty hands  *)
(* and a hidden hole card.                                                  *)
C22_NoRoundOverState ==
    [][op = "decide_winner" =>
          /\ ENABLED PlayDealerTurn
          /\ \A seed \in Seeds :
                /\ player_hit(G, seed).raised = "none"
                /\ player_hit(G, seed).card = player_hit(Unresolved(G), seed).card
                /\ player_hit(G, seed).g.player_hand = Append(player_hand, player_hit(G, seed).card)
                /\ Unresolved(player_hit(G, seed).g) = player_hit(Unresolved(G), seed).g
          /\ op' = "player_hit" =>
                /\ raised' = "none"
                /\ player_hand' = Append(player_hand, card')
                /\ dealer_hand' = dealer_hand
          /\ op' = "play_dealer_turn" =>
                /\ pc' = "dealer_loop"
                /\ raised' = "none"
                /\ player_hand' = player_hand
                /\ dealer_hand' = dealer_hand
          /\ op' # "new_round" =>
                /\ dealer_hidden_revealed' = TRUE
                /\ player_hand' # <<>> \/ player_hand = <<>>]_vars

C22_Witness_HitStillAcceptedAfterBust ==
    /\ op = "decide_winner"
    /\ result = "Player busts. Dealer wins!"
    /\ Len(player_hand) = 3
    /\ player_hit(G, 1).raised = "none"
    /\ Len(player_hit(G, 1).g.player_hand) = 4
    /\ ENABLED PlayDealerTurn


(* C23 as stated: card_value fails with an InvalidCard error for every card *)
(* whose rank/suit pair lies outside the 13 ranks x 4 suits (rank '1', '11' *)
(* or 'X', or an unknown suit), instead of returning a value.               *)
C23_Original_InvalidCardRaised ==
    (op = "card_value" /\ card \notin StandardDeck) => raised = "InvalidCard"

C23_Witness_RankOneReturned ==
    /\ op = "card_value"
    /\ card = <<"1", "S">>
    /\ card \notin StandardDeck
    /\ raised = "none"
    /\ total = 1


Outcomes ==
    {"Player busts. Dealer wins!", "Dealer busts. Player wins!", "Player wins!",
     "Dealer wins!", "Push (tie)."}

C25_ResolvedRoundIsClosed ==
    [][/\ round_decisions' <= 1
       /\ round_decisions' >= 1 => ~hitButton' /\ ~standButton'
       /\ round_decisions >= 1 =>
             /\ op' = "on_new_round"
             /\ round_decisions' = 0
             /\ rounds' = rounds + 1]_vars

C25_Witness_ResolvedSecondRound ==
    /\ rounds = 2
    /\ round_decisions = 1
    /\ decisions = 2
    /\ ~hitButton /\ ~standButton
    /\ op = "on_hit"
    /\ rounds < MaxRounds

(* C26: the statistics count each resolved round exactly once: every        *)
(* resolution adds 1 to exactly one of wins, losses, pushes (wins for       *)
(* 'Player wins!' and 'Dealer busts. Player wins!', losses for 'Dealer      *)
(* wins!' and 'Player busts. Dealer wins!', pushes for 'Push (tie).');      *)
(* counters never decrease and do not change on a Hit without bust or on    *)
(* New Round, so wins + losses + pushes is the number of resolved rounds.   *)
C26_StatsCountResolutions ==
    [][/\ stats'.wins + stats'.losses + stats'.pushes = decisions'
       /\ stats'.wins >= stats.wins
       /\ stats'.losses >= stats.losses
       /\ stats'.pushes >= stats.pushes
       /\ decisions' = decisions => stats' = stats
       /\ op' = "on_new_round" => stats' = stats
       /\ decisions' # decisions =>
             /\ decisions' = decisions + 1
             /\ result' \in Outcomes
             /\ result' \in {"Player wins!", "Dealer busts. Player wins!"} =>
                   stats' = [stats EXCEPT !.wins = @ + 1]
             /\ result' \in {"Dealer wins!", "Player busts. Dealer wins!"} =>
                   stats' = [stats EXCEPT !.losses = @ + 1]
             /\ result' = "Push (tie)." => stats' = [stats EXCEPT !.pushes = @ + 1]]_vars

C26_Witness_AllThreeCounted ==
    /\ stats.wins = 1
    /\ stats.losses = 1
    /\ stats.pushes = 1
    /\ decisions = 3
    /\ result = "Dealer busts. Player wins!"

(* C27: in the window, when a Hit makes player_total() exceed 21 the round  *)
(* is resolved at once as the player's loss ('Player busts. Dealer wins!')  *)
(* without the dealer playing: the dealer's hand still holds exactly its    *)
(* two initial cards.                                                       *)
C27_BustOnHitResolvesAtOnce ==
    (op = "on_hit" /\ player_total > 21) =>
        /\ round_decisions = 1
        /\ result = "Player busts. Dealer wins!"
        /\ feedbackLabel = result
        /\ Len(dealer_hand) = 2
        /\ dealer_hand = SubSeq(deck, 3, 4)
        /\ drawn_cards = <<>>
        /\ deck_position = Len(player_hand) + 2
        /\ ~hitButton /\ ~standButton

C27_Witness_BustOnFirstHit ==
    /\ op = "on_hit"
    /\ round_hits = 1
    /\ player_total > 21
    /\ dealer_total < 17
    /\ result = "Player busts. Dealer wins!"
    /\ stats.losses >= 1


(* C28: in the window, whenever a round is resolved the hole card is        *)
(* revealed and either player_total() > 21 or dealer_total() >= 17: on      *)
(* Stand the dealer has played to completion before the winner is decided   *)
(* (reveal, dealer turn, decide).                                           *)
C28_ResolvedAfterDealerPlayed ==
    round_decisions >= 1 =>
        /\ dealer_hidden_revealed
        /\ player_total > 21 \/ dealer_total >= 17
        /\ op = "on_stand" =>
              /\ dealer_total >= 17
              /\ dealer_hand = entry_hand \o drawn_cards
              /\ Len(entry_hand) = 2
              /\ \A i \in 1..Len(drawn_cards) :
                     hand_total(SubSeq(dealer_hand, 1, 1 + i)) < 17
              /\ result = decide_winner(G).result
        /\ op = "on_hit" => player_total > 21

C28_Witness_StandDealerDrew ==
    /\ op = "on_stand"
    /\ round_decisions = 1
    /\ Len(drawn_cards) >= 2
    /\ dealer_total \in 17..21
    /\ player_total <= 21
    /\ dealer_hidden_revealed

(* C29: in the window the player's total is <= 21 whenever Stand can be     *)
(* clicked, so a round resolved by Stand never has the outcome 'Player      *)
(* busts. Dealer wins!' and the both-bust case of decide_winner is          *)
(* unreachable.                                                             *)
C29_StandOnlyBelowBust ==
    /\ standButton => player_total <= 21
    /\ op = "on_stand" => result # "Player busts. Dealer wins!" /\ player_total <= 21
    /\ ~(player_total > 21 /\ dealer_total > 21)

C29_Witness_StandAt21 ==
    /\ standButton
    /\ op = "on_hit"
    /\ round_hits >= 2
    /\ player_total = 21

(* C30: in the window the player cannot hit forever: in every round at      *)
(* most 10 Hit clicks are handled after the deal (the twelve lowest cards   *)
(* of a deck exceed 21), the last one a bust that resolves the round, so a  *)
(* round in which the player keeps hitting is eventually resolved (or left  *)
(* by New Round).                                                           *)
C30_HitsAreBounded ==
    /\ [](/\ round_hits <= 10
          /\ HardTotal(SubSeq(create_deck, 1, 12)) > 21
          /\ Len(player_hand) = 2 + round_hits
          /\ round_hits = 10 => ~hitButton /\ result = "Player busts. Dealer wins!")
    /\ \A k \in 1..MaxRounds :
          (rounds = k /\ hitButton) ~> ((rounds = k /\ ~hitButton) \/ rounds > k)

C30_Witness_TenthHitBusts ==
    /\ round_hits = 10
    /\ op = "on_hit"
    /\ Len(player_hand) = 12
    /\ player_total = 24
    /\ ~hitButton



(* C31: in a window session (new_round, one deal, hits only while the       *)
(* player's total is at most 21, at most one dealer turn) the shoe is never *)
(* rebuilt inside a round: the cursor equals the number of cards held, the  *)
(* cards of the two hands are exactly the first deck_position cards of the  *)
(* shoe, and no card is held twice.                                         *)
C31_HandsAreShoePrefix ==
    /\ ~rebuilt
    /\ raised = "none"
    /\ deck_position = Len(player_hand) + Len(dealer_hand)
    /\ CardsOf(player_hand \o dealer_hand) = CardsOf(SubSeq(deck, 1, deck_position))
    /\ PairwiseDistinct(player_hand \o dealer_hand)

C31_Witness_HitThenDealerDrew ==
    /\ op = "on_stand"
    /\ rounds = 2
    /\ Len(player_hand) >= 3
    /\ Len(dealer_hand) >= 3
    /\ deck_position = Len(player_hand) + Len(dealer_hand)


\* the step is the call of the engine method of that name
Called(method) == pc = "idle" /\ op' = method

\* the step is a draw_card call made by the loop of play_dealer_turn
DrawnInDealerLoop == pc = "dealer_loop" /\ deck_position' # deck_position

(* C32: within a round the reveal flag only goes up: it is False after      *)
(* construction and after new_round, becomes True only in                   *)
(* reveal_dealer_card, play_dealer_turn or decide_winner (each of which     *)
(* leaves it True), is left as it was by deal_initial_cards, draw_card and  *)
(* player_hit, and once True stays True until the next new_round.           *)
C32_RevealFlagMonotone ==
    /\ op = "init" => ~dealer_hidden_revealed
    /\ [][/\ Called("new_round") => ~dealer_hidden_revealed'
          /\ (~dealer_hidden_revealed /\ dealer_hidden_revealed') =>
                 \/ Called("reveal_dealer_card")
                 \/ Called("play_dealer_turn")
                 \/ Called("decide_winner")
          /\ (\/ Called("reveal_dealer_card")
              \/ Called("play_dealer_turn")
              \/ Called("decide_winner")) => dealer_hidden_revealed'
          /\ (\/ Called("deal_initial_cards")
              \/ Called("draw_card")
              \/ Called("player_hit")
              \/ DrawnInDealerLoop) => UNCHANGED dealer_hidden_revealed
          /\ (dealer_hidden_revealed /\ ~Called("new_round")) => dealer_hidden_revealed'
       ]_vars

C32_Witness_HitWhileRevealed ==
    /\ op = "player_hit"
    /\ dealer_hidden_revealed
    /\ Len(player_hand) = 3
    /\ Len(dealer_hand) >= 3


(* C33: deal_initial_cards replaces the hands instead of extending them:    *)
(* called in any reachable state (also without a new_round before it, or a  *)
(* second time in a round) it leaves each hand with exactly the 2 cards it  *)
(* drew for it, whatever was held before, makes exactly 4 draws from the    *)
(* shoe (the cursor moves by 4 when the shoe is not rebuilt on the way) and *)
(* leaves dealer_hidden_revealed as it was.                                 *)
C33_DealReplacesHands ==
    [][Called("deal_initial_cards") =>
          /\ raised' = "none"
          /\ Len(player_hand') = 2
          /\ Len(dealer_hand') = 2
          /\ \E seed \in Seeds : \E rs \in {draw_cards(G, seed, 4)} :
                /\ completed(rs, 4)
                /\ player_hand' = <<rs[1].card, rs[2].card>>
                /\ dealer_hand' = <<rs[3].card, rs[4].card>>
                /\ deck' = rs[4].g.deck
                /\ deck_position' = rs[4].g.deck_position
          /\ deck_position + 4 <= Len(deck) =>
                /\ deck' = deck
                /\ deck_position' = deck_position + 4
                /\ player_hand' \o dealer_hand' = SubSeq(deck, deck_position + 1, deck_position + 4)
          /\ UNCHANGED dealer_hidden_revealed]_vars

C33_Witness_SecondDealWhileRevealed ==
    /\ op = "deal_initial_cards"
    /\ dealer_hidden_revealed
    /\ ~rebuilt
    /\ Len(dealt_log) >= 9
    /\ deck_position = Len(dealt_log)
    /\ player_hand = <<deck[deck_position - 3], deck[deck_position - 2]>>
    /\ dealer_hand = <<deck[deck_position - 1], deck[deck_position]>>

====
